---- MODULE Spec2Model ----
(***************************************************************************)
(* The Car controller of the car-store backend: the five request handlers  *)
(* createACar, getAllCars, getSingleCar, updateACar and deleteACar, each   *)
(* modelled as one atomic step from request to response.  The validation   *)
(* schema (carValidationSchema) and the data access layer (CarService) are  *)
(* collaborators of the controller; they are modelled from their contract.  *)
(***************************************************************************)
EXTENDS Integers, Sequences, FiniteSets, TLC

VARIABLES store, nextId, req, res, calls, repeatedDelete

vars == <<store, nextId, req, res, calls, repeatedDelete>>

(* ------------------------------ bounds --------------------------------- *)

\* Number of Car records the store ever assigns an identifier to.
MaxCars == 2

(* --------------------------- JSON values ------------------------------- *)

Str(x) == [t |-> "string", s |-> x, n |-> 0]

Num(k) == [t |-> "number", s |-> "", n |-> k]

Bool(b) == [t |-> "boolean", s |-> "", n |-> IF b THEN 1 ELSE 0]

\* The value of a key the object does not have.
Undefined == [t |-> "undefined", s |-> "", n |-> 0]

\* obj.key
Get(obj, k) == IF k \in DOMAIN obj THEN obj[k] ELSE Undefined

\* !v
Falsy(v) ==
    \/ v.t = "undefined"
    \/ v.t = "number" /\ v.n = 0
    \/ v.t = "string" /\ v.s = ""
    \/ v.t = "boolean" /\ v.n = 0

\* The object obj with key k set to v (left alone when v is undefined).
Extend(obj, k, v) ==
    IF v = Undefined THEN obj
    ELSE [x \in DOMAIN obj \cup {k} |-> IF x = k THEN v ELSE obj[x]]

\* { ...a, ...b }
Merge(a, b) == [x \in DOMAIN a \cup DOMAIN b |-> IF x \in DOMAIN b THEN b[x] ELSE a[x]]

\* The empty object {}.
EmptyObject == <<>>

\* path.join('.')
RECURSIVE Join(_)
Join(path) ==
    IF path = <<>> THEN ""
    ELSE IF Len(path) = 1 THEN path[1]
    ELSE path[1] \o "." \o Join(Tail(path))

(* --------------------------- thrown values ----------------------------- *)

NoFault == [kind |-> "none", name |-> "", message |-> "", issues |-> <<>>]

\* new z.ZodError(issues)
ZodError(issues) ==
    [kind |-> "ZodError", name |-> "ZodError", message |-> "invalid", issues |-> issues]

\* An Error instance thrown by the store (lost connection, cast failure).
StoreError ==
    [kind |-> "Error", name |-> "MongoServerError", message |-> "store failure",
     issues |-> <<>>]

\* throw 'boom'
ThrownString == [kind |-> "String", name |-> "", message |-> "", issues |-> <<>>]

\* throw { message: 'rejected' }
ThrownObject == [kind |-> "Object", name |-> "", message |-> "rejected", issues |-> <<>>]

\* throw null / throw undefined
ThrownNullish == [kind |-> "Nullish", name |-> "", message |-> "", issues |-> <<>>]

\* A schema error raised below the controller: two rules of one field, one of another.
StoreZodError ==
    ZodError(<< [path |-> <<"price">>, message |-> "Expected number"],
                [path |-> <<"price">>, message |-> "Price must be a positive number"],
                [path |-> <<"brand">>, message |-> "Brand is required"] >>)

\* What a data access call of each handler may do instead of returning.
Faults(op) ==
    CASE op \in {"create", "list"} -> {NoFault, StoreError, ThrownString}
      [] op = "get" -> {NoFault, StoreZodError, StoreError, ThrownString}
      [] op \in {"update", "delete"} ->
            {NoFault, StoreZodError, StoreError, ThrownString, ThrownObject, ThrownNullish}

\* err instanceof z.ZodError
IsZodError(err) == err.kind = "ZodError"

\* err instanceof Error
IsError(err) == err.kind \in {"Error", "ZodError"}

(* ------------------------- validation schema --------------------------- *)

SchemaFields == <<"brand", "model", "year", "price", "category", "quantity", "inStock">>

RequiredFields == {"brand", "model", "year", "price", "category", "quantity"}

Categories == {"Sedan", "SUV", "Truck", "Coupe", "Convertible"}

PlausibleYears == 1900..2100

\* The message of the rule that field f of payload b violates, "" when it violates none.
FieldMessage(f, b) ==
    IF f \notin DOMAIN b THEN (IF f \in RequiredFields THEN "Required" ELSE "")
    ELSE LET v == b[f] IN
        CASE f \in {"brand", "model"} ->
                IF v.t # "string" THEN "Expected string"
                ELSE IF v.s = "" THEN "Must not be empty" ELSE ""
          [] f = "year" ->
                IF v.t # "number" THEN "Expected number"
                ELSE IF v.n \notin PlausibleYears THEN "Year out of range" ELSE ""
          [] f \in {"price", "quantity"} ->
                IF v.t # "number" THEN "Expected number"
                ELSE IF v.n < 0 THEN "Must not be negative" ELSE ""
          [] f = "category" ->
                IF v.t # "string" THEN "Expected string"
                ELSE IF v.s \notin Categories THEN "Invalid category" ELSE ""
          [] f = "inStock" ->
                IF v.t # "boolean" THEN "Expected boolean" ELSE ""

\* The issues of payload b over the fields fs, in schema order.
RECURSIVE IssuesOver(_, _)
IssuesOver(fs, b) ==
    IF fs = <<>> THEN <<>>
    ELSE LET m == FieldMessage(Head(fs), b)
         IN (IF m = "" THEN <<>> ELSE << [path |-> <<Head(fs)>>, message |-> m] >>)
            \o IssuesOver(Tail(fs), b)

\* carValidationSchema.parse(body): the issues it throws with, <<>> when body is valid.
Issues(b) == IssuesOver(SchemaFields, b)

\* carValidationSchema.parse(body): the typed value, unknown keys stripped.
Parse(b) == [f \in DOMAIN b \cap {SchemaFields[i] : i \in 1..Len(SchemaFields)} |-> b[f]]

(* ----------------------------- payloads -------------------------------- *)

PayloadKeys == {"brand", "model", "year", "price", "category", "quantity", "inStock", "color"}

\* The object obj with key k set to v, or without key k when v is undefined.
Edit(obj, k, v) ==
    IF v = Undefined THEN [x \in DOMAIN obj \ {k} |-> obj[x]] ELSE Extend(obj, k, v)

\* A valid payload (the first scenario of the specification, scaled down).
ValidBody ==
    [k \in PayloadKeys \ {"color"} |->
        CASE k = "brand" -> Str("Toyota")
          [] k = "model" -> Str("Corolla")
          [] k = "year" -> Num(2020)
          [] k = "price" -> Num(1)
          [] k = "category" -> Str("Sedan")
          [] k = "quantity" -> Num(1)
          [] k = "inStock" -> Bool(TRUE)]

\* The payload of the second scenario of the specification.
ScenarioBody == [k \in {"brand", "price"} |-> IF k = "brand" THEN Str("") ELSE Num(-5)]

\* The other values a payload may carry for key k (undefined: the key is missing).
EditValues(k) ==
    CASE k = "brand" -> {Undefined, Str("")}
      [] k = "model" -> {Undefined, Num(7)}
      [] k = "year" -> {Undefined, Num(1800)}
      [] k = "price" -> {Undefined, Num(-5), Num(0)}
      [] k = "category" -> {Undefined, Str("Boat")}
      [] k = "quantity" -> {Undefined, Num(-1)}
      [] k = "inStock" -> {Str("yes")}
      [] k = "color" -> {Str("red")}

\* Request bodies of POST /api/cars: the valid payload, the payloads that differ from
\* it in one key, and the invalid scenario.
Bodies ==
    {ValidBody, ScenarioBody}
    \cup UNION {{Edit(ValidBody, k, v) : v \in EditValues(k)} : k \in PayloadKeys}

\* Request bodies of PUT /api/cars/:carId.
UpdateBodies ==
    {Extend(Extend(Extend(EmptyObject, "brand", b), "price", p), "quantity", q) :
        b \in {Undefined, Str("Honda")},
        p \in {Undefined, Num(0), Num(1)},
        q \in {Undefined, Num(0), Num(1)}}

\* :carId of the URL.
CarIds == 1..MaxCars

\* ?searchTerm= of the URL, "" when there is none.
SearchTerms == {"", "Honda", "Volvo"}

(* ------------------------- data access layer --------------------------- *)

DataAbsent == [kind |-> "absent", items |-> <<>>]

DataNull == [kind |-> "null", items |-> <<>>]

DataObject(doc) == [kind |-> "object", items |-> <<doc>>]

DataArray(docs) == [kind |-> "array", items |-> docs]

\* The stored documents whose identifier is at most n, in identifier order.
RECURSIVE DocsUpTo(_, _)
DocsUpTo(s, n) ==
    IF n = 0 THEN <<>>
    ELSE DocsUpTo(s, n - 1) \o (IF n \in DOMAIN s THEN <<s[n]>> ELSE <<>>)

\* Whether the search term matches the document's brand, model or category.
Matches(doc, term) ==
    \E f \in {"brand", "model", "category"} : Get(doc, f) = Str(term)

\* CarService.createCarIntoDB(car): the document the store assigns identifier id.
CreateCarIntoDB(car, id) == Extend(car, "_id", Num(id))

\* CarService.getAllCarsFromDB(searchTerm)
GetAllCarsFromDB(s, term) ==
    LET all == DocsUpTo(s, MaxCars + 1)
    IN IF term = "" THEN all ELSE SelectSeq(all, LAMBDA d : Matches(d, term))

\* CarService.getSingleCarFromDB(carId): the document, or null.
GetSingleCarFromDB(s, carId) == IF carId \in DOMAIN s THEN DataObject(s[carId]) ELSE DataNull

\* CarService.updateACarIntoDB(carId, updateData): the store afterwards; the call
\* returns the updated document, or null when there is none with this identifier.
UpdateACarIntoDB(s, carId, updateData) ==
    IF carId \in DOMAIN s THEN [s EXCEPT ![carId] = Merge(s[carId], updateData)] ELSE s

\* CarService.deleteACarFromDB(carId): the store afterwards.
DeleteACarFromDB(s, carId) == [i \in DOMAIN s \ {carId} |-> s[i]]

(* ----------------------------- responses ------------------------------- *)

\* No response: the handler's promise rejected before res.json was called.
NoResponse ==
    [sent |-> FALSE, code |-> 0, keys |-> {}, message |-> "", success |-> FALSE,
     status |-> FALSE, data |-> DataAbsent, errorName |-> "", errorMessage |-> "",
     errors |-> EmptyObject, errorList |-> <<>>]

\* res.status(code).json({ message, ... }) with the given top-level keys.
Json(code, keys, message) ==
    [NoResponse EXCEPT !.sent = TRUE, !.code = code, !.keys = keys, !.message = message]

NoRequest ==
    [op |-> "none", carId |-> 0, body |-> EmptyObject, searchTerm |-> "", fault |-> NoFault]

(* ------------------------------ createACar ----------------------------- *)

\* Mutant of ErrorDetails: the entries are keyed by the issue's message.
RECURSIVE ErrorDetailsByMessage(_)
ErrorDetailsByMessage(errors) ==
    IF errors = <<>> THEN EmptyObject
    ELSE LET error == errors[Len(errors)]
             acc == ErrorDetailsByMessage(SubSeq(errors, 1, Len(errors) - 1))
             key == error.message
         IN [k \in DOMAIN acc \cup {key} |->
                IF k = key
                THEN [message |-> error.message, name |-> "ValidatorError",
                      properties |-> [message |-> error.message, path |-> Join(error.path)]]
                ELSE acc[k]]

\* err.errors.reduce((acc, error) => { acc[error.path.join('.')] = {...}; return acc }, {})
RECURSIVE ErrorDetails(_)
ErrorDetails(errors) ==
    IF errors = <<>> THEN EmptyObject
    ELSE LET error == errors[Len(errors)]
             acc == ErrorDetails(SubSeq(errors, 1, Len(errors) - 1))
             key == Join(error.path)
         IN [k \in DOMAIN acc \cup {key} |->
                IF k = key
                THEN [message |-> error.message, name |-> "ValidatorError",
                      properties |-> [message |-> error.message, path |-> key]]
                ELSE acc[k]]

\* Mutant of CreateCatch: an Error instance is answered 404, as the other handlers do.
CreateCatchNotFound(err) ==
    IF IsZodError(err)
    THEN [Json(400, {"message", "success", "error", "stack"}, "Validation failed")
            EXCEPT !.success = FALSE, !.errorName = "ValidationError",
                   !.errors = ErrorDetails(err.issues)]
    ELSE IF IsError(err)
    THEN [Json(404, {"success", "message"}, "Car not found") EXCEPT !.success = FALSE]
    ELSE [Json(500, {"message", "success", "error", "stack"}, "Car could not be created!")
            EXCEPT !.success = FALSE, !.errorName = "UnknownError",
                   !.errorMessage = "An unknown error occurred"]

\* The catch block of createACar.
CreateCatch(err) ==
    IF IsZodError(err)
    THEN [Json(400, {"message", "success", "error", "stack"}, "Validation failed")
            EXCEPT !.success = FALSE, !.errorName = "ValidationError",
                   !.errors = ErrorDetails(err.issues)]
    ELSE [Json(500, {"message", "success", "error", "stack"}, "Car could not be created!")
            EXCEPT !.success = FALSE,
                   !.errorName = IF IsError(err) THEN err.name ELSE "UnknownError",
                   !.errorMessage = IF IsError(err) THEN err.message
                                    ELSE "An unknown error occurred"]

\* Mutant of CreateOk: the flag is sent under the key the other handlers use.
CreateOkStatus(result) ==
    [Json(200, {"message", "status", "data"}, "Car created successfully")
        EXCEPT !.status = TRUE, !.data = DataObject(result)]

\* The response of createACar to the document the data layer returned.
CreateOk(result) ==
    [Json(200, {"message", "success", "data"}, "Car created successfully")
        EXCEPT !.success = TRUE, !.data = DataObject(result)]

createACar(body, fault) ==
    /\ req' = [NoRequest EXCEPT !.op = "create", !.body = body, !.fault = fault]
    /\ repeatedDelete' = FALSE
    /\ IF Issues(body) # <<>>
       THEN /\ fault = NoFault
            /\ res' = CreateCatch(ZodError(Issues(body)))
            /\ calls' = <<>>
            /\ UNCHANGED <<store, nextId>>
       ELSE /\ calls' = <<"createCarIntoDB">>
            /\ IF fault # NoFault
               THEN /\ res' = CreateCatch(fault)
                    /\ UNCHANGED <<store, nextId>>
               ELSE /\ nextId <= MaxCars
                    /\ LET result == CreateCarIntoDB(Parse(body), nextId)
                       IN /\ store' = Extend(store, nextId, result)
                          /\ res' = CreateOk(result)
                    /\ nextId' = nextId + 1

(* ------------------------------ getAllCars ----------------------------- *)

\* The catch block of getAllCars.
ListCatch(err) ==
    IF IsError(err)
    THEN [Json(500, {"message", "success", "error"}, "An error occurred while fetching cars")
            EXCEPT !.success = FALSE, !.errorName = err.name, !.errorMessage = err.message]
    ELSE [Json(500, {"message", "success", "error"}, "An unexpected error occurred")
            EXCEPT !.success = FALSE, !.errorName = "UnknownError",
                   !.errorMessage = "An unknown error occurred"]

\* Mutant of ListResult: an empty array is answered like any other.
ListResultEmptyOk(result) ==
    [Json(200, {"message", "status", "data"}, "Cars retrieved successfully")
        EXCEPT !.status = TRUE, !.data = DataArray(result)]

\* The response of getAllCars to the array the data layer returned.
ListResult(result) ==
    IF Len(result) > 0
    THEN [Json(200, {"message", "status", "data"}, "Cars retrieved successfully")
            EXCEPT !.status = TRUE, !.data = DataArray(result)]
    ELSE [Json(404, {"success", "message", "data"}, "No cars found.")
            EXCEPT !.success = FALSE, !.data = DataNull]

getAllCars(searchTerm, fault) ==
    /\ req' = [NoRequest EXCEPT !.op = "list", !.searchTerm = searchTerm, !.fault = fault]
    /\ repeatedDelete' = FALSE
    /\ calls' = <<"getAllCarsFromDB">>
    /\ res' = IF fault # NoFault THEN ListCatch(fault)
              ELSE ListResult(GetAllCarsFromDB(store, searchTerm))
    /\ UNCHANGED <<store, nextId>>

(* ----------------------------- getSingleCar ---------------------------- *)

\* Mutant of GetCatch: every thrown value is answered 500, as getAllCars does.
GetCatchServerError(err) ==
    [Json(500, {"message", "success", "error"}, "An unexpected error occurred")
        EXCEPT !.success = FALSE, !.errorName = "UnknownError",
               !.errorMessage = "An unknown error occurred"]

\* The catch block of getSingleCar.
GetCatch(err) ==
    IF IsError(err)
    THEN [Json(404, {"success", "message"}, "Car not found") EXCEPT !.success = FALSE]
    ELSE [Json(500, {"message", "success", "error"}, "An unexpected error occurred")
            EXCEPT !.success = FALSE, !.errorName = "UnknownError",
                   !.errorMessage = "An unknown error occurred"]

\* The response of getSingleCar to what the data layer returned (a document or null).
GetResult(result) ==
    IF result.kind # "null"
    THEN [Json(200, {"message", "status", "data"}, "Car retrieved successfully")
            EXCEPT !.status = TRUE, !.data = result]
    ELSE [Json(404, {"success", "message", "data"}, "No cars found.")
            EXCEPT !.success = FALSE, !.data = DataNull]

getSingleCar(carId, fault) ==
    /\ req' = [NoRequest EXCEPT !.op = "get", !.carId = carId, !.fault = fault]
    /\ repeatedDelete' = FALSE
    /\ calls' = <<"getSingleCarFromDB">>
    /\ res' = IF fault # NoFault THEN GetCatch(fault)
              ELSE GetResult(GetSingleCarFromDB(store, carId))
    /\ UNCHANGED <<store, nextId>>

(* ------------------------------ updateACar ----------------------------- *)

\* err.errors.map((error) => ({ path: error.path.join('.'), errorMessage: error.message }))
ErrorList(errors) ==
    [i \in 1..Len(errors) |->
        [path |-> Join(errors[i].path), errorMessage |-> errors[i].message]]

\* (err as Error).message || 'Unknown error'
MessageOr(err) == IF err.message = "" THEN "Unknown error" ELSE err.message

\* Mutant of UpdateCatch: the schema error is not told apart from other Error instances.
UpdateCatchNoZod(err) ==
    IF IsError(err)
    THEN [Json(404, {"success", "message"}, "Car not found") EXCEPT !.success = FALSE]
    ELSE IF err.kind = "Nullish" THEN NoResponse
    ELSE [Json(500, {"success", "message", "error"}, "An error occurred while updating the car")
            EXCEPT !.success = FALSE, !.errorMessage = MessageOr(err)]

\* The catch block of updateACar.  Reading .message of null or undefined throws inside
\* the catch block, and the handler ends without a response.
UpdateCatch(err) ==
    IF IsZodError(err)
    THEN [Json(400, {"success", "message", "errors"}, "Validation error")
            EXCEPT !.success = FALSE, !.errorList = ErrorList(err.issues)]
    ELSE IF IsError(err)
    THEN [Json(404, {"success", "message"}, "Car not found") EXCEPT !.success = FALSE]
    ELSE IF err.kind = "Nullish" THEN NoResponse
    ELSE [Json(500, {"success", "message", "error"}, "An error occurred while updating the car")
            EXCEPT !.success = FALSE, !.errorMessage = MessageOr(err)]

\* Mutant of UpdateShapeError: refused only when price and quantity are both missing.
UpdateShapeErrorBoth(updateData) ==
    IF Cardinality(DOMAIN updateData) = 0
    THEN [Json(400, {"success", "message"}, "At least one field must be provided for update")
            EXCEPT !.success = FALSE]
    ELSE IF Falsy(Get(updateData, "price")) /\ Falsy(Get(updateData, "quantity"))
    THEN [Json(400, {"success", "message"}, "Price and quantity must be provided")
            EXCEPT !.success = FALSE]
    ELSE NoResponse

\* The early returns of updateACar; NoResponse when the handler goes on.
UpdateShapeError(updateData) ==
    IF Cardinality(DOMAIN updateData) = 0
    THEN [Json(400, {"success", "message"}, "At least one field must be provided for update")
            EXCEPT !.success = FALSE]
    ELSE IF Falsy(Get(updateData, "price")) \/ Falsy(Get(updateData, "quantity"))
    THEN [Json(400, {"success", "message"}, "Price and quantity must be provided")
            EXCEPT !.success = FALSE]
    ELSE NoResponse

\* The response of updateACar to what the data layer returned (a document or null).
UpdateResult(result) ==
    IF result.kind = "null"
    THEN [Json(404, {"success", "message"}, "Car not found") EXCEPT !.success = FALSE]
    ELSE [Json(200, {"message", "status", "data"}, "Car updated successfully")
            EXCEPT !.status = TRUE, !.data = result]

updateACar(carId, updateData, fault) ==
    /\ req' = [NoRequest EXCEPT !.op = "update", !.carId = carId, !.body = updateData,
                                !.fault = fault]
    /\ repeatedDelete' = FALSE
    /\ nextId' = nextId
    /\ IF UpdateShapeError(updateData).sent
       THEN /\ fault = NoFault
            /\ res' = UpdateShapeError(updateData)
            /\ calls' = <<>>
            /\ store' = store
       ELSE /\ calls' = <<"updateACarIntoDB">>
            /\ IF fault # NoFault
               THEN /\ res' = UpdateCatch(fault)
                    /\ store' = store
               ELSE /\ store' = UpdateACarIntoDB(store, carId, updateData)
                    /\ res' = UpdateResult(GetSingleCarFromDB(store', carId))

(* ------------------------------ deleteACar ----------------------------- *)

\* The catch block of deleteACar.
DeleteCatch(err) ==
    IF IsZodError(err)
    THEN [Json(400, {"success", "message", "errors"}, "Validation error")
            EXCEPT !.success = FALSE, !.errorList = ErrorList(err.issues)]
    ELSE IF IsError(err)
    THEN [Json(404, {"success", "message"}, "Car not found") EXCEPT !.success = FALSE]
    ELSE IF err.kind = "Nullish" THEN NoResponse
    ELSE [Json(500, {"success", "message", "error"}, "An error occurred while deleting the car")
            EXCEPT !.success = FALSE, !.errorMessage = MessageOr(err)]

\* The response of deleteACar when the data layer returned.
DeleteOk ==
    [Json(200, {"message", "status", "data"}, "Car deleted successfully")
        EXCEPT !.status = TRUE, !.data = DataObject(EmptyObject)]

\* Mutant of deleteACar: a delete that finds no record is answered 404.
deleteACarStrict(carId, fault) ==
    /\ req' = [NoRequest EXCEPT !.op = "delete", !.carId = carId, !.fault = fault]
    /\ repeatedDelete' = (req.op = "delete" /\ req.carId = carId /\ res = DeleteOk)
    /\ calls' = <<"deleteACarFromDB">>
    /\ nextId' = nextId
    /\ IF fault # NoFault
       THEN /\ res' = DeleteCatch(fault)
            /\ store' = store
       ELSE /\ store' = DeleteACarFromDB(store, carId)
            /\ res' = IF carId \in DOMAIN store THEN DeleteOk
                      ELSE [Json(404, {"success", "message"}, "Car not found")
                              EXCEPT !.success = FALSE]

deleteACar(carId, fault) ==
    /\ req' = [NoRequest EXCEPT !.op = "delete", !.carId = carId, !.fault = fault]
    /\ repeatedDelete' = (req.op = "delete" /\ req.carId = carId /\ res = DeleteOk)
    /\ calls' = <<"deleteACarFromDB">>
    /\ nextId' = nextId
    /\ IF fault # NoFault
       THEN /\ res' = DeleteCatch(fault)
            /\ store' = store
       ELSE /\ store' = DeleteACarFromDB(store, carId)
            /\ res' = DeleteOk

(* ---------------------------- specification ---------------------------- *)

Init ==
    /\ store = EmptyObject
    /\ nextId = 1
    /\ req = NoRequest
    /\ res = NoResponse
    /\ calls = <<>>
    /\ repeatedDelete = FALSE

Next ==
    \/ \E body \in Bodies, fault \in Faults("create") : createACar(body, fault)
    \/ \E searchTerm \in SearchTerms, fault \in Faults("list") : getAllCars(searchTerm, fault)
    \/ \E carId \in CarIds, fault \in Faults("get") : getSingleCar(carId, fault)
    \/ \E carId \in CarIds, updateData \in UpdateBodies, fault \in Faults("update") :
            updateACar(carId, updateData, fault)
    \/ \E carId \in CarIds, fault \in Faults("delete") : deleteACar(carId, fault)

Spec == Init /\ [][Next]_vars

(* ------------------------------- claims -------------------------------- *)

\* The fields of the schema that payload b violates.
ViolatedFields(b) ==
    {f \in {SchemaFields[i] : i \in 1..Len(SchemaFields)} : FieldMessage(f, b) # ""}

CreateCalled == calls = <<"createCarIntoDB">>

UpdateCalled == calls = <<"updateACarIntoDB">>

\* C1: a create whose body fails schema validation is answered 400 with success=false
\* and an errors object that has exactly one entry per violated field, keyed by the
\* field's path; the data layer is not called and the store is left as it was.
C1_CreateInvalid ==
    [][(req'.op = "create" /\ ViolatedFields(req'.body) # {}) =>
        /\ res'.sent /\ res'.code = 400
        /\ "success" \in res'.keys /\ res'.success = FALSE
        /\ "error" \in res'.keys
        /\ DOMAIN res'.errors = ViolatedFields(req'.body)
        /\ \A f \in DOMAIN res'.errors :
              /\ res'.errors[f].properties.path = f
              /\ res'.errors[f].message = FieldMessage(f, req'.body)
        /\ calls' = <<>>
        /\ store' = store /\ nextId' = nextId]_vars

\* The invalid scenario was answered with one entry for each of its six violated fields.
C1_Witness ==
    /\ req.op = "create" /\ req.body = ScenarioBody
    /\ res.code = 400
    /\ {"brand", "price"} \subseteq DOMAIN res.errors
    /\ Cardinality(DOMAIN res.errors) = 6
    /\ store # EmptyObject

\* C2: a create whose body passes validation and whose data access call returns is
\* answered 200 with success=true and the stored record as data; the record has the
\* fields of the validated input plus the assigned identifier, and it is the one record
\* added to the store.
C2_CreateValid ==
    [][(req'.op = "create" /\ ViolatedFields(req'.body) = {} /\ req'.fault = NoFault) =>
        /\ res'.sent /\ res'.code = 200
        /\ "success" \in res'.keys /\ res'.success = TRUE
        /\ "data" \in res'.keys /\ res'.data.kind = "object"
        /\ LET doc == res'.data.items[1]
               input == Parse(req'.body)
           IN /\ DOMAIN doc = DOMAIN input \cup {"_id"}
              /\ \A f \in DOMAIN input : doc[f] = req'.body[f]
              /\ doc["_id"] = Num(nextId)
              /\ nextId \notin DOMAIN store
              /\ DOMAIN store' = DOMAIN store \cup {nextId}
              /\ store'[nextId] = doc
              /\ \A i \in DOMAIN store : store'[i] = store[i]]_vars

\* A second car was created from a body with a key the schema does not know.
C2_Witness ==
    /\ req.op = "create" /\ req.fault = NoFault
    /\ "color" \in DOMAIN req.body
    /\ res.code = 200
    /\ Cardinality(DOMAIN store) = 2

\* C3: when the data access create call throws anything but a schema validation error,
\* the response is 500 with success=false and an error object with a name and a message.
C3_CreateFailure ==
    (req.op = "create" /\ CreateCalled /\ req.fault # NoFault /\ ~IsZodError(req.fault)) =>
        /\ res.sent /\ res.code = 500 /\ res.code \notin {400, 404}
        /\ "success" \in res.keys /\ res.success = FALSE
        /\ "error" \in res.keys
        /\ res.errorName = (IF IsError(req.fault) THEN req.fault.name ELSE "UnknownError")
        /\ res.errorMessage = (IF IsError(req.fault) THEN req.fault.message
                               ELSE "An unknown error occurred")
        /\ res.errorName # "" /\ res.errorMessage # ""

\* The create call threw a string.
C3_Witness ==
    /\ req.op = "create" /\ CreateCalled /\ req.fault = ThrownString
    /\ res.code = 500 /\ res.errorName = "UnknownError"

\* C4: a list whose data access call returns no record is answered 404 "No cars found."
\* and never 200; one that returns records is answered 200 with all of them as data.
C4_ListBoundary ==
    (req.op = "list" /\ req.fault = NoFault) =>
        LET result == GetAllCarsFromDB(store, req.searchTerm)
        IN /\ res.sent
           /\ IF Len(result) = 0
              THEN res.code = 404 /\ res.message = "No cars found." /\ res.data = DataNull
              ELSE res.code = 200 /\ res.data = DataArray(result)

\* A search that matches none of the two stored cars was answered 404.
C4_Witness ==
    /\ req.op = "list" /\ req.fault = NoFault /\ req.searchTerm = "Volvo"
    /\ Cardinality(DOMAIN store) = 2
    /\ res.code = 404

\* C5 as stated: every lookup that returns null or throws, whatever is thrown, is
\* answered 404 and never 500; 200 carries the fetched record.
C5_Original ==
    req.op = "get" =>
        /\ res.sent /\ res.code # 500
        /\ (req.fault # NoFault => res.code = 404)
        /\ (req.fault = NoFault /\ req.carId \notin DOMAIN store => res.code = 404)
        /\ (res.code = 200 =>
              /\ req.fault = NoFault /\ req.carId \in DOMAIN store
              /\ res.data = DataObject(store[req.carId]))

\* C5: a lookup that returns null, or throws an Error instance, is answered 404; one
\* that throws a value that is no Error instance is answered 500; 200 is returned only
\* for a fetched record, which is its data.
C5_GetMapping ==
    req.op = "get" =>
        /\ res.sent
        /\ (req.fault # NoFault /\ IsError(req.fault) => res.code = 404)
        /\ (req.fault # NoFault /\ ~IsError(req.fault) => res.code = 500)
        /\ (req.fault = NoFault /\ req.carId \notin DOMAIN store => res.code = 404)
        /\ (res.code = 200 =>
              /\ req.fault = NoFault /\ req.carId \in DOMAIN store
              /\ res.data = DataObject(store[req.carId]))

\* The lookup of a stored car threw a string and was answered 500.
C5_Witness ==
    /\ req.op = "get" /\ req.fault = ThrownString /\ req.carId \in DOMAIN store
    /\ res.code = 500

\* C6: an update with an empty payload is answered 400 "At least one field ...", and
\* one without the price key or without the quantity key is answered 400; neither calls
\* the data layer nor changes the store.
C6_UpdateShape ==
    [][(/\ req'.op = "update"
        /\ \/ DOMAIN req'.body = {}
           \/ "price" \notin DOMAIN req'.body
           \/ "quantity" \notin DOMAIN req'.body) =>
        /\ res'.sent /\ res'.code = 400 /\ res'.success = FALSE
        /\ (DOMAIN req'.body = {} <=>
                res'.message = "At least one field must be provided for update")
        /\ (DOMAIN req'.body # {} => res'.message = "Price and quantity must be provided")
        /\ calls' = <<>>
        /\ store' = store]_vars

\* An update of a stored car with a valid brand and price but no quantity was refused.
C6_Witness ==
    /\ req.op = "update" /\ req.carId \in DOMAIN store
    /\ DOMAIN req.body = {"brand", "price"} /\ req.body["price"] = Num(1)
    /\ res.code = 400 /\ calls = <<>>

\* C7: an update payload that has price and quantity, both non-negative (0 included),
\* is passed to the data layer; "Price and quantity must be provided" is the answer only
\* when price or quantity is missing from the payload.
C7_ZeroAccepted ==
    req.op = "update" =>
        /\ ({"price", "quantity"} \subseteq DOMAIN req.body
            /\ req.body["price"].t = "number" /\ req.body["price"].n >= 0
            /\ req.body["quantity"].t = "number" /\ req.body["quantity"].n >= 0
                => UpdateCalled)
        /\ (res.message = "Price and quantity must be provided"
                => ~({"price", "quantity"} \subseteq DOMAIN req.body))

\* C8 as stated: after the shape guard, null gives 404, a record gives 200 with the
\* record, a schema error gives 400 with one list entry per issue, and every other
\* thrown value gives 404, never 500.
C8_Original ==
    (req.op = "update" /\ UpdateCalled) =>
        /\ (req.fault = NoFault /\ req.carId \notin DOMAIN store => res.code = 404)
        /\ (req.fault = NoFault /\ req.carId \in DOMAIN store =>
              /\ res.code = 200 /\ res.data = DataObject(store[req.carId])
              /\ \A f \in DOMAIN req.body : store[req.carId][f] = req.body[f])
        /\ (IsZodError(req.fault) =>
              /\ res.code = 400 /\ Len(res.errorList) = Len(req.fault.issues)
              /\ \A i \in 1..Len(res.errorList) :
                    /\ res.errorList[i].path = Join(req.fault.issues[i].path)
                    /\ res.errorList[i].errorMessage = req.fault.issues[i].message)
        /\ (req.fault # NoFault /\ ~IsZodError(req.fault) => res.sent /\ res.code = 404)
        /\ res.code # 500

\* C8: after the shape guard, null gives 404, a record gives 200 with the record, a
\* schema error gives 400 with one list entry per issue, and every other thrown Error
\* instance gives 404; a thrown value that is no Error instance is never answered 404:
\* it is answered 500, or not at all when it is null or undefined.
C8_UpdateMapping ==
    (req.op = "update" /\ UpdateCalled) =>
        /\ (req.fault = NoFault /\ req.carId \notin DOMAIN store => res.code = 404)
        /\ (req.fault = NoFault /\ req.carId \in DOMAIN store =>
              /\ res.code = 200 /\ res.data = DataObject(store[req.carId])
              /\ \A f \in DOMAIN req.body : store[req.carId][f] = req.body[f])
        /\ (IsZodError(req.fault) =>
              /\ res.code = 400 /\ Len(res.errorList) = Len(req.fault.issues)
              /\ \A i \in 1..Len(res.errorList) :
                    /\ res.errorList[i].path = Join(req.fault.issues[i].path)
                    /\ res.errorList[i].errorMessage = req.fault.issues[i].message)
        /\ (IsError(req.fault) /\ ~IsZodError(req.fault) => res.sent /\ res.code = 404)
        /\ (req.fault # NoFault /\ ~IsError(req.fault) =>
              IF req.fault.kind = "Nullish" THEN ~res.sent
              ELSE res.sent /\ res.code = 500)

\* The update of a stored car threw a plain object and was answered 500.
C8_Witness ==
    /\ req.op = "update" /\ UpdateCalled /\ req.carId \in DOMAIN store
    /\ req.fault = ThrownObject
    /\ res.code = 500 /\ res.errorMessage = "rejected"

\* C9: a delete whose data access call returns is answered 200 with data {}, whether
\* or not the record existed; a second delete of the same identifier right after it is
\* answered with the same response and leaves the store as it was.
C9_DeleteIdempotent ==
    [][(req'.op = "delete" /\ req'.fault = NoFault) =>
        /\ res'.sent /\ res'.code = 200
        /\ "data" \in res'.keys /\ res'.data = DataObject(EmptyObject)
        /\ req'.carId \notin DOMAIN store'
        /\ (repeatedDelete' => res' = res /\ store' = store)]_vars

\* The same identifier was deleted twice in a row while another car stayed stored.
C9_Witness ==
    /\ req.op = "delete" /\ req.fault = NoFault /\ repeatedDelete
    /\ res.code = 200
    /\ req.carId < nextId
    /\ store # EmptyObject

\* C10: every response of every handler has a message and a boolean success, and
\* success is true exactly when the status is 200.
C10_Envelope ==
    res.sent =>
        /\ "message" \in res.keys
        /\ "success" \in res.keys
        /\ (res.success <=> res.code = 200)

====
